---- MODULE Spec2Model ----
(***************************************************************************)
(* Block-request scheduler (Wishlist) of libtransmission, together with    *)
(* the part of tr_torrent that feeds it events.                            *)
(*                                                                         *)
(*   src/libtransmission/peer-mgr-wishlist.cc   the scheduler              *)
(*   src/libtransmission/torrent.cc             on_block_received & co.    *)
(*   src/libtransmission/torrent-piece-priority.cc  file ordinals          *)
(***************************************************************************)
EXTENDS Integers, Sequences, FiniteSets, TLC

VARIABLES
    torrent,              \* the metainfo: sizes and file paths
    owned,                \* tr_completion::blocks_: blocks the client has
    files_wanted,         \* tr_torrent::files_wanted_
    file_priorities,      \* tr_torrent::file_priorities_
    file_index_by_piece,  \* tr_torrent::file_index_by_piece_
    requests,             \* per peer: tr_peer::active_requests
    candidates,           \* Wishlist::Impl::candidates_
    tags                  \* Wishlist::Impl::tags_: the events the scheduler observes

vars == << torrent, owned, files_wanted, file_priorities, file_index_by_piece,
           requests, candidates, tags >>

\* ------------------------------------------------------------------------
\* Bounds and inputs of the model

\* the largest n_wanted_blocks next() is asked for
MaxWanted == 3

\* the most requests in flight at a time, over all peers
MaxRequests == 2

\* The connected peers.  The scheduler never learns which peer an event is
\* about; two peers are what it takes for a block to be requested twice.
Peers == {"p1", "p2"}

\* tr_priority_t values a file is given (TR_PRI_NORMAL, TR_PRI_HIGH)
Priorities == {0, 1}

\* The torrents the model is run on.  Sizes are in bytes; a path is the
\* sequence of its characters' codes.
\*   - 2 pieces of 3 bytes, blocks of 2 bytes: block 1 is shared by both
\*     pieces; the files are "a" and "b"
\*   - pieces and blocks of 1 byte: one block per piece; the files are "b"
\*     and "a", so the second file sorts before the first
Torrents ==
    { [piece_size |-> 3, block_size |-> 2, file_sizes |-> << 3, 3 >>, paths |-> << << 97 >>, << 98 >> >>],
      [piece_size |-> 1, block_size |-> 1, file_sizes |-> << 1, 1 >>, paths |-> << << 98 >>, << 97 >> >>] }

\* The paths the file-order model draws from:
\*   "a.b", "a.a.b", "a.aa", "A.B", "b/a"
FilePaths ==
    << << 97, 46, 98 >>, << 97, 46, 97, 46, 98 >>, << 97, 46, 97, 97 >>,
       << 65, 46, 66 >>, << 98, 47, 97 >> >>

\* The torrents the file-order model is run on: 2 pieces of 3 bytes, three
\* files of 1 byte in piece 0 and one file of 3 bytes in piece 1.  The files
\* take any four of the paths, in the order of the list.
PathTorrents ==
    { [piece_size |-> 3, block_size |-> 3, file_sizes |-> << 1, 1, 1, 3 >>,
       paths |-> << FilePaths[q[1]], FilePaths[q[2]], FilePaths[q[3]], FilePaths[q[4]] >>] :
        q \in { r \in (DOMAIN FilePaths) \X (DOMAIN FilePaths) \X (DOMAIN FilePaths) \X (DOMAIN FilePaths) :
                  r[1] < r[2] /\ r[2] < r[3] /\ r[3] < r[4] } }

\* ------------------------------------------------------------------------
\* Generic helpers

Min(a, b) == IF a < b THEN a ELSE b

RECURSIVE SumSeq(_)
SumSeq(s) == IF s = << >> THEN 0 ELSE Head(s) + SumSeq(Tail(s))

SetMin(S) == CHOOSE x \in S : \A y \in S : x <= y

SetMax(S) == CHOOSE x \in S : \A y \in S : x >= y

\* the blocks of a tr_block_span_t {begin, end}
SpanBlocks(span) == { b \in span.begin .. (span.end - 1) : TRUE }

\* ------------------------------------------------------------------------
\* The torrent's geometry (tr_block_info, tr_file_piece_map)

total_size == SumSeq(torrent.file_sizes)

file_count == Len(torrent.file_sizes)

piece_count == (total_size + torrent.piece_size - 1) \div torrent.piece_size

block_count == (total_size + torrent.block_size - 1) \div torrent.block_size

Files == 0 .. (file_count - 1)

Pieces == 0 .. (piece_count - 1)

Blocks == 0 .. (block_count - 1)

\* byte span of a piece
piece_byte_span(piece) ==
    [begin |-> piece * torrent.piece_size,
     end |-> Min((piece + 1) * torrent.piece_size, total_size)]

\* tr_block_info::block_span_for_piece
block_span(piece) ==
    [begin |-> piece_byte_span(piece).begin \div torrent.block_size,
     end |-> ((piece_byte_span(piece).end - 1) \div torrent.block_size) + 1]

\* tr_file_piece_map::byte_span_for_file
byte_span_for_file(file) ==
    [begin |-> SumSeq(SubSeq(torrent.file_sizes, 1, file)),
     end |-> SumSeq(SubSeq(torrent.file_sizes, 1, file + 1))]

\* tr_file_piece_map::file_span_for_piece, as the set of files
file_span_for_piece(piece) ==
    { f \in Files :
        /\ byte_span_for_file(f).begin < piece_byte_span(piece).end
        /\ piece_byte_span(piece).begin < byte_span_for_file(f).end }

\* the pieces a block has bytes in: first_piece .. last_piece of on_block_received
block_pieces(block) == { p \in Pieces : block \in SpanBlocks(block_span(p)) }

\* ------------------------------------------------------------------------
\* The mediator's read side, computed from the torrent's state

client_has_block(have, block) == block \in have

\* tr_completion::has_piece: no block of the piece is missing
client_has_piece(have, piece) == SpanBlocks(block_span(piece)) \subseteq have

\* tr_files_wanted::piece_wanted
piece_is_wanted(wanted, piece) == \E f \in file_span_for_piece(piece) : wanted[f]

\* tr_file_priorities::piece_priority: the highest priority of the piece's files
piece_priority(prios, piece) == SetMax({ prios[f] : f \in file_span_for_piece(piece) })

\* ------------------------------------------------------------------------
\* tr_torrent::recalculate_file_order

\* std::tolower on an ASCII character
tolower_char(c) == IF c \in 65..90 THEN c + 32 ELSE c

\* std::lexicographical_compare on the lower-cased characters
RECURSIVE compare_ci(_, _)
compare_ci(s1, s2) ==
    IF s2 = << >> THEN FALSE
    ELSE IF s1 = << >> THEN TRUE
    ELSE IF tolower_char(Head(s1)) < tolower_char(Head(s2)) THEN TRUE
    ELSE IF tolower_char(Head(s2)) < tolower_char(Head(s1)) THEN FALSE
    ELSE compare_ci(Tail(s1), Tail(s2))

equal_ci(s1, s2) ==
    /\ Len(s1) = Len(s2)
    /\ \A i \in 1..Len(s1) : tolower_char(s1[i]) = tolower_char(s2[i])

\* std::string_view::rfind: the last position of c, counted from 1; 0 is npos
rfind(s, c) ==
    IF \E i \in 1..Len(s) : s[i] = c
    THEN SetMax({ i \in 1..Len(s) : s[i] = c })
    ELSE 0

\* directory and file name, split at the last '/'
split_path(path) ==
    LET pos == rfind(path, 47)
    IN  IF pos # 0
        THEN << SubSeq(path, 1, pos - 1), SubSeq(path, pos + 1, Len(path)) >>
        ELSE << << >>, path >>

\* base and extension, split at the last '.' unless it is the first character
split_ext(name) ==
    LET pos == rfind(name, 46)
    IN  IF pos > 1
        THEN << SubSeq(name, 1, pos - 1), SubSeq(name, pos, Len(name)) >>
        ELSE << name, << >> >>

\* the comparison std::sort is given: is file a ordered before file b?
file_order_less(a, b) ==
    LET dir_a  == split_path(torrent.paths[a + 1])[1]
        name_a == split_path(torrent.paths[a + 1])[2]
        dir_b  == split_path(torrent.paths[b + 1])[1]
        name_b == split_path(torrent.paths[b + 1])[2]
        base_a == split_ext(name_a)[1]
        ext_a  == split_ext(name_a)[2]
        base_b == split_ext(name_b)[1]
        ext_b  == split_ext(name_b)[2]
        shorter == IF Len(base_a) < Len(base_b) THEN base_a ELSE base_b
        longer  == IF Len(base_a) < Len(base_b) THEN base_b ELSE base_a
    IN  IF ~equal_ci(dir_a, dir_b)
        THEN compare_ci(dir_a, dir_b)
        ELSE IF /\ equal_ci(ext_a, ext_b)
                /\ Len(base_a) # Len(base_b)
                /\ equal_ci(shorter, SubSeq(longer, 1, Len(shorter)))
             THEN Len(base_a) < Len(base_b)
             ELSE compare_ci(name_a, name_b)

\* the orders a set of files can be put in
RECURSIVE orderings(_)
orderings(fs) ==
    IF fs = {} THEN { << >> }
    ELSE UNION { { << f >> \o s : s \in orderings(fs \ {f}) } : f \in fs }

\* what std::sort requires of its comparison, given as the table of its
\* results on the files
strict_weak_ordering(fs, less) ==
    /\ \A a \in fs : ~less[a, a]
    /\ \A a, b, c \in fs : less[a, b] /\ less[b, c] => less[a, c]
    /\ \A a, b, c \in fs :
          (~less[a, b] /\ ~less[b, a] /\ ~less[b, c] /\ ~less[c, b])
          => ~less[a, c] /\ ~less[c, a]

\* The wanted files after std::sort.  std::sort is not stable, so files that
\* compare equivalent end in either order; with a comparison that is not a
\* strict weak ordering the behaviour is undefined, and any order can result.
wanted_files(wanted) ==
    LET fs == { f \in Files : wanted[f] }
        less == [a \in fs, b \in fs |-> file_order_less(a, b)]
    IN  IF strict_weak_ordering(fs, less)
        THEN { s \in orderings(fs) :
                 \A i, j \in 1..Cardinality(fs) : i < j => ~less[s[j], s[i]] }
        ELSE orderings(fs)

\* actual file index -> alphabetical file index; piece_count is "not assigned"
file_idx_map(sorted, file) ==
    IF \E i \in DOMAIN sorted : sorted[i] = file
    THEN (CHOOSE i \in DOMAIN sorted : sorted[i] = file) - 1
    ELSE piece_count

\* file_index_by_piece_: for each wanted piece the smallest alphabetical index
\* of its wanted files, kept only when it is below piece_count
recalculate_file_order(wanted, sorted) ==
    [piece \in Pieces |->
        IF piece_is_wanted(wanted, piece)
        THEN SetMin({ piece_count } \cup
                    { file_idx_map(sorted, f) : f \in { g \in file_span_for_piece(piece) : wanted[g] } })
        ELSE piece_count]

\* ------------------------------------------------------------------------
\* Wishlist::Impl::Candidate

Candidate(piece, have, prios, file_order) ==
    [piece |-> piece,
     file_index |-> file_order[piece],
     block_span |-> block_span(piece),
     raw_block_span |-> block_span(piece),
     unrequested |-> { b \in SpanBlocks(block_span(piece)) : ~client_has_block(have, b) },
     priority |-> piece_priority(prios, piece)]

\* Candidate::operator< on sort_key() = (-priority, file_index, piece)
CandidateLess(a, b) ==
    \/ -a.priority < -b.priority
    \/ /\ a.priority = b.priority
       /\ \/ a.file_index < b.file_index
          \/ /\ a.file_index = b.file_index
             /\ a.piece < b.piece

block_belongs(c, block) == c.block_span.begin <= block /\ block < c.block_span.end

\* std::sort with operator<
RECURSIVE InsertSorted(_, _)
InsertSorted(c, s) ==
    IF s = << >> THEN << c >>
    ELSE IF CandidateLess(c, Head(s)) THEN << c >> \o s
    ELSE << Head(s) >> \o InsertSorted(c, Tail(s))

RECURSIVE sort_candidates(_)
sort_candidates(s) ==
    IF s = << >> THEN << >> ELSE InsertSorted(Head(s), sort_candidates(Tail(s)))

\* index of the first candidate for the piece, 0 for std::end
find_by_piece(cs, piece) ==
    IF \E i \in 1..Len(cs) : cs[i].piece = piece
    THEN SetMin({ i \in 1..Len(cs) : cs[i].piece = piece })
    ELSE 0

\* index of the first candidate whose span holds the block, 0 for std::end
find_by_block(cs, block) ==
    IF \E i \in 1..Len(cs) : block_belongs(cs[i], block)
    THEN SetMin({ i \in 1..Len(cs) : block_belongs(cs[i], block) })
    ELSE 0

\* ------------------------------------------------------------------------
\* The scheduler's handlers.  Each takes the candidate list (and what it
\* reads of the torrent) and returns the new candidate list.

\* Wishlist::Impl::candidate_list_upkeep
new_candidates(have, wanted, prios, file_order) ==
    LET RECURSIVE collect(_)
        collect(piece) ==
            IF piece >= piece_count THEN << >>
            ELSE IF piece_is_wanted(wanted, piece) /\ ~client_has_piece(have, piece)
                 THEN << Candidate(piece, have, prios, file_order) >> \o collect(piece + 1)
                 ELSE collect(piece + 1)
    IN  sort_candidates(collect(0))

\* an overlap trim that moves the span's begin and erases no block
trim_overlap_span_only(prev, curr) ==
    IF prev.block_span.end > curr.block_span.begin
    THEN [curr EXCEPT !.block_span = [begin |-> prev.block_span.end, end |-> curr.block_span.end]]
    ELSE curr

trim_overlap(prev, curr) ==
    IF prev.block_span.end > curr.block_span.begin
    THEN [curr EXCEPT
            !.unrequested = @ \ { b \in Blocks : curr.block_span.begin <= b /\ b < prev.block_span.end },
            !.block_span = [begin |-> prev.block_span.end, end |-> curr.block_span.end]]
    ELSE curr

candidate_list_upkeep(have, wanted, prios, file_order) ==
    LET sorted == new_candidates(have, wanted, prios, file_order)
    IN  [i \in 1..Len(sorted) |-> IF i = 1 THEN sorted[i] ELSE trim_overlap(sorted[i - 1], sorted[i])]

\* Wishlist::Impl::requested_block_span.  The candidate's unrequested blocks
\* inside [begin, end) are erased; on an empty set the two bounds are read
\* past the container, and whatever they hold the erased range is empty.
erase_requested(c, span) ==
    [c EXCEPT !.unrequested = { b \in @ : ~(span.begin <= b /\ b < span.end) }]

\* a loop step that restarts at the beginning of the candidate's span
loop_restart(c) == c.block_span.begin

\* the block the loop goes on with after candidate c
loop_advance(c) == c.block_span.end

RECURSIVE requested_from(_, _, _)
requested_from(cs, span, block) ==
    IF block >= span.end THEN cs
    ELSE LET i == find_by_block(cs, block)
         IN  IF i = 0 THEN cs
             ELSE requested_from([cs EXCEPT ![i] = erase_requested(cs[i], span)], span, loop_advance(cs[i]))

\* Does the loop dereference std::prev(end) and begin of an empty unrequested
\* set?  Both are read for every candidate the loop visits, before anything
\* tells whether the set holds an element.
RECURSIVE reads_empty_unrequested(_, _, _)
reads_empty_unrequested(cs, span, block) ==
    IF block >= span.end THEN FALSE
    ELSE LET i == find_by_block(cs, block)
         IN  IF i = 0 THEN FALSE
             ELSE \/ cs[i].unrequested = {}
                  \/ reads_empty_unrequested(cs, span, loop_advance(cs[i]))

requested_block_span(cs, span) == requested_from(cs, span, span.begin)

\* reset_block that falls back to the first candidate when no span holds
\* the block
reset_block_anywhere(cs, block) ==
    IF cs = << >> THEN cs
    ELSE IF \E i \in 1..Len(cs) : block_belongs(cs[i], block)
         THEN [cs EXCEPT ![SetMin({ i \in 1..Len(cs) : block_belongs(cs[i], block) })].unrequested = @ \cup {block}]
         ELSE [cs EXCEPT ![1].unrequested = @ \cup {block}]

\* Wishlist::Impl::reset_block
reset_block(cs, block) ==
    LET i == find_by_block(cs, block)
    IN  IF i = 0 THEN cs
        ELSE [cs EXCEPT ![i].unrequested = @ \cup {block}]

\* reset_blocks_bitfield that resets the whole span of every candidate the
\* requests touch
reset_blocks_span(cs, reqs) ==
    [i \in 1..Len(cs) |->
        IF reqs \cap SpanBlocks(cs[i].block_span) = {} THEN cs[i]
        ELSE [cs[i] EXCEPT !.unrequested = @ \cup SpanBlocks(cs[i].block_span)]]

\* Wishlist::Impl::reset_blocks_bitfield
reset_blocks_bitfield(cs, reqs) ==
    [i \in 1..Len(cs) |->
        [cs[i] EXCEPT !.unrequested = @ \cup (reqs \cap SpanBlocks(cs[i].block_span))]]

\* Wishlist::Impl::client_got_block
client_got_block(cs, block) ==
    LET i == find_by_block(cs, block)
    IN  IF i = 0 THEN cs
        ELSE [cs EXCEPT ![i].unrequested = @ \ {block}]

\* Wishlist::Impl::got_bad_piece
got_bad_piece(cs, piece, have) ==
    LET i == find_by_piece(cs, piece)
    IN  IF i = 0 THEN cs
        ELSE [cs EXCEPT
                ![i].block_span = cs[i].raw_block_span,
                ![i].unrequested =
                    { b \in SpanBlocks(cs[i].raw_block_span) : ~client_has_block(have, b) }]

\* remove_piece that leaves the candidate in the list
remove_piece_kept(cs, piece) == cs

\* Wishlist::Impl::remove_piece
remove_piece(cs, piece) ==
    LET i == find_by_piece(cs, piece)
    IN  IF i = 0 THEN cs
        ELSE SubSeq(cs, 1, i - 1) \o SubSeq(cs, i + 1, Len(cs))

\* recalculate_priority that also resets every candidate's unrequested set
recalculate_priority_resetting(cs, prios) ==
    sort_candidates([i \in 1..Len(cs) |->
        [cs[i] EXCEPT !.priority = piece_priority(prios, cs[i].piece),
                      !.unrequested = SpanBlocks(cs[i].block_span)]])

\* recalculate_priority without its sort_candidates()
recalculate_priority_unsorted(cs, prios) ==
    [i \in 1..Len(cs) |-> [cs[i] EXCEPT !.priority = piece_priority(prios, cs[i].piece)]]

\* Wishlist::Impl::recalculate_priority
recalculate_priority(cs, prios) ==
    sort_candidates([i \in 1..Len(cs) |-> [cs[i] EXCEPT !.priority = piece_priority(prios, cs[i].piece)]])

\* ------------------------------------------------------------------------
\* Wishlist::Impl::next

\* the n largest elements of a set, descending (std::copy_n from begin)
RECURSIVE take_largest(_, _)
take_largest(S, n) ==
    IF n = 0 \/ S = {} THEN << >>
    ELSE << SetMax(S) >> \o take_largest(S \ {SetMax(S)}, n - 1)

\* the n smallest elements of a set, ascending (std::copy_n from rbegin of the
\* descending set)
RECURSIVE take_smallest(_, _)
take_smallest(S, n) ==
    IF n = 0 \/ S = {} THEN << >>
    ELSE << SetMin(S) >> \o take_smallest(S \ {SetMin(S)}, n - 1)

add_blocks(blocks, c, n_wanted_blocks) ==
    blocks \o take_smallest(c.unrequested, Min(Cardinality(c.unrequested), n_wanted_blocks - Len(blocks)))

\* the priority branch without its peer_has_piece test
RECURSIVE next_priority_unfiltered(_, _, _, _, _)
next_priority_unfiltered(cs, i, blocks, n_wanted_blocks, peer_has_piece) ==
    IF i > Len(cs) \/ Len(blocks) >= n_wanted_blocks THEN blocks
    ELSE IF cs[i].unrequested = {}
         THEN next_priority_unfiltered(cs, i + 1, blocks, n_wanted_blocks, peer_has_piece)
         ELSE next_priority_unfiltered(cs, i + 1, add_blocks(blocks, cs[i], n_wanted_blocks),
                                       n_wanted_blocks, peer_has_piece)

\* the loop of the priority branch, from candidate i on
RECURSIVE next_priority(_, _, _, _, _)
next_priority(cs, i, blocks, n_wanted_blocks, peer_has_piece) ==
    IF i > Len(cs) \/ Len(blocks) >= n_wanted_blocks THEN blocks
    ELSE IF cs[i].piece \notin peer_has_piece \/ cs[i].unrequested = {}
         THEN next_priority(cs, i + 1, blocks, n_wanted_blocks, peer_has_piece)
         ELSE next_priority(cs, i + 1, add_blocks(blocks, cs[i], n_wanted_blocks), n_wanted_blocks, peer_has_piece)

\* the sequential branch stopping at the first change of file, whether or
\* not it has found a block
RECURSIVE next_sequential_stopping(_, _, _, _, _, _)
next_sequential_stopping(cs, i, blocks, cur, n_wanted_blocks, peer_has_piece) ==
    IF i > Len(cs) \/ Len(blocks) >= n_wanted_blocks THEN blocks
    ELSE LET first == IF cur.have THEN cur
                      ELSE [have |-> TRUE, priority |-> cs[i].priority, file_index |-> cs[i].file_index]
         IN  IF cs[i].priority # first.priority \/ cs[i].file_index # first.file_index THEN blocks
             ELSE IF cs[i].piece \notin peer_has_piece \/ cs[i].unrequested = {}
                  THEN next_sequential_stopping(cs, i + 1, blocks, first, n_wanted_blocks, peer_has_piece)
                  ELSE next_sequential_stopping(cs, i + 1, add_blocks(blocks, cs[i], n_wanted_blocks), first,
                                                n_wanted_blocks, peer_has_piece)

\* the sequential branch without its break on a change of file
next_sequential_straddling(cs, i, blocks, cur, n_wanted_blocks, peer_has_piece) ==
    next_priority(cs, i, blocks, n_wanted_blocks, peer_has_piece)

\* the loop of the sequential branch, from candidate i on; cur is the current
\* file: [have, priority, file_index]
RECURSIVE next_sequential(_, _, _, _, _, _)
next_sequential(cs, i, blocks, cur, n_wanted_blocks, peer_has_piece) ==
    IF i > Len(cs) \/ Len(blocks) >= n_wanted_blocks THEN blocks
    ELSE LET first == IF cur.have THEN cur
                      ELSE [have |-> TRUE, priority |-> cs[i].priority, file_index |-> cs[i].file_index]
             moved == cs[i].priority # first.priority \/ cs[i].file_index # first.file_index
             now == [have |-> TRUE, priority |-> cs[i].priority, file_index |-> cs[i].file_index]
         IN  IF moved /\ blocks # << >> THEN blocks
             ELSE IF cs[i].piece \notin peer_has_piece \/ cs[i].unrequested = {}
                  THEN next_sequential(cs, i + 1, blocks, now, n_wanted_blocks, peer_has_piece)
                  ELSE next_sequential(cs, i + 1, add_blocks(blocks, cs[i], n_wanted_blocks), now,
                                       n_wanted_blocks, peer_has_piece)

\* std::sort of the collected blocks (duplicates are kept)
RECURSIVE InsertBlock(_, _)
InsertBlock(b, s) ==
    IF s = << >> THEN << b >>
    ELSE IF b < Head(s) THEN << b >> \o s
    ELSE << Head(s) >> \o InsertBlock(b, Tail(s))

RECURSIVE sort_blocks(_)
sort_blocks(s) == IF s = << >> THEN << >> ELSE InsertBlock(Head(s), sort_blocks(Tail(s)))

\* make_spans: std::adjacent_find(span_begin, end, NotAdjacent), capped at the
\* last element, closes each span
RECURSIVE make_spans_from(_, _)
make_spans_from(blocks, span_begin) ==
    IF span_begin > Len(blocks) THEN << >>
    ELSE LET breaks == { j \in span_begin .. (Len(blocks) - 1) : blocks[j] + 1 # blocks[j + 1] }
             span_end == IF breaks = {} THEN Len(blocks) ELSE SetMin(breaks)
         IN  << [begin |-> blocks[span_begin], end |-> blocks[span_end] + 1] >>
                 \o make_spans_from(blocks, span_end + 1)

make_spans(blocks) == make_spans_from(blocks, 1)

\* a second pass over the candidates that also takes requested blocks: every
\* missing block of the accepted candidates not taken yet, up to n_wanted_blocks
RECURSIVE second_pass(_, _, _, _, _)
second_pass(cs, i, blocks, n_wanted_blocks, peer_has_piece) ==
    IF i > Len(cs) \/ Len(blocks) >= n_wanted_blocks THEN blocks
    ELSE IF cs[i].piece \notin peer_has_piece
         THEN second_pass(cs, i + 1, blocks, n_wanted_blocks, peer_has_piece)
         ELSE LET missing == { b \in SpanBlocks(cs[i].block_span) \ owned :
                                  \A k \in 1..Len(blocks) : blocks[k] # b }
              IN  second_pass(cs, i + 1,
                              blocks \o take_smallest(missing, Min(Cardinality(missing), n_wanted_blocks - Len(blocks))),
                              n_wanted_blocks, peer_has_piece)

first_pass(cs, seq, n_wanted_blocks, peer_has_piece) ==
    IF n_wanted_blocks = 0 \/ cs = << >> THEN << >>
    ELSE IF seq
         THEN next_sequential(cs, 1, << >>, [have |-> FALSE, priority |-> 0, file_index |-> 0],
                              n_wanted_blocks, peer_has_piece)
         ELSE next_priority(cs, 1, << >>, n_wanted_blocks, peer_has_piece)

\* next() with an endgame pass that runs when the first pass finds nothing
next_blocks_endgame(cs, seq, n_wanted_blocks, peer_has_piece) ==
    IF first_pass(cs, seq, n_wanted_blocks, peer_has_piece) # << >>
    THEN first_pass(cs, seq, n_wanted_blocks, peer_has_piece)
    ELSE second_pass(cs, 1, << >>, n_wanted_blocks, peer_has_piece)

\* next() with a second pass that runs whenever the first pass falls short
next_blocks_top_up(cs, seq, n_wanted_blocks, peer_has_piece) ==
    second_pass(cs, 1, first_pass(cs, seq, n_wanted_blocks, peer_has_piece), n_wanted_blocks, peer_has_piece)

\* next() that takes a request for no block as a request for one
next_blocks_zero_as_one(cs, seq, n_wanted_blocks, peer_has_piece) ==
    first_pass(cs, seq, IF n_wanted_blocks = 0 THEN 1 ELSE n_wanted_blocks, peer_has_piece)

\* the blocks next() collects, before they are sorted
next_blocks(cs, seq, n_wanted_blocks, peer_has_piece) ==
    IF n_wanted_blocks = 0 \/ cs = << >> THEN << >>
    ELSE IF seq
         THEN next_sequential(cs, 1, << >>, [have |-> FALSE, priority |-> 0, file_index |-> 0],
                              n_wanted_blocks, peer_has_piece)
         ELSE next_priority(cs, 1, << >>, n_wanted_blocks, peer_has_piece)

next(cs, seq, n_wanted_blocks, peer_has_piece) ==
    make_spans(sort_blocks(next_blocks(cs, seq, n_wanted_blocks, peer_has_piece)))

\* Wishlist::next(n_wanted_blocks), the version for seeds: the two loops of
\* next() with the per-piece test left out
RECURSIVE seed_priority(_, _, _, _)
seed_priority(cs, i, blocks, n_wanted_blocks) ==
    IF i > Len(cs) \/ Len(blocks) >= n_wanted_blocks THEN blocks
    ELSE IF cs[i].unrequested = {}
         THEN seed_priority(cs, i + 1, blocks, n_wanted_blocks)
         ELSE seed_priority(cs, i + 1, add_blocks(blocks, cs[i], n_wanted_blocks), n_wanted_blocks)

RECURSIVE seed_sequential(_, _, _, _, _)
seed_sequential(cs, i, blocks, cur, n_wanted_blocks) ==
    IF i > Len(cs) \/ Len(blocks) >= n_wanted_blocks THEN blocks
    ELSE LET first == IF cur.have THEN cur
                      ELSE [have |-> TRUE, priority |-> cs[i].priority, file_index |-> cs[i].file_index]
             moved == cs[i].priority # first.priority \/ cs[i].file_index # first.file_index
             now == [have |-> TRUE, priority |-> cs[i].priority, file_index |-> cs[i].file_index]
         IN  IF moved /\ blocks # << >> THEN blocks
             ELSE IF cs[i].unrequested = {}
                  THEN seed_sequential(cs, i + 1, blocks, now, n_wanted_blocks)
                  ELSE seed_sequential(cs, i + 1, add_blocks(blocks, cs[i], n_wanted_blocks), now, n_wanted_blocks)

\* a version for seeds that does not look at the download mode
next_seed_blocks_any_mode(cs, seq, n_wanted_blocks) ==
    IF n_wanted_blocks = 0 \/ cs = << >> THEN << >>
    ELSE seed_priority(cs, 1, << >>, n_wanted_blocks)

next_seed_blocks(cs, seq, n_wanted_blocks) ==
    IF n_wanted_blocks = 0 \/ cs = << >> THEN << >>
    ELSE IF seq
         THEN seed_sequential(cs, 1, << >>, [have |-> FALSE, priority |-> 0, file_index |-> 0], n_wanted_blocks)
         ELSE seed_priority(cs, 1, << >>, n_wanted_blocks)

next_seed(cs, seq, n_wanted_blocks) ==
    make_spans(sort_blocks(next_seed_blocks(cs, seq, n_wanted_blocks)))

\* next() that erases the blocks it returns from the unrequested sets
candidates_after_next_marking(cs, seq, n_wanted_blocks, peer_has_piece) ==
    [i \in 1..Len(cs) |->
        [cs[i] EXCEPT !.unrequested =
            { b \in @ : \A k \in 1..Len(next_blocks(cs, seq, n_wanted_blocks, peer_has_piece)) :
                          next_blocks(cs, seq, n_wanted_blocks, peer_has_piece)[k] # b }]]

\* candidates_ after a call of next(): the loops read the candidates through
\* `auto const&' and nothing is assigned
candidates_after_next(cs, seq, n_wanted_blocks, peer_has_piece) == cs

\* ------------------------------------------------------------------------
\* The subscriptions

\* the events of the Mediator
Events ==
    { "files_wanted_changed", "peer_disconnect", "got_bad_piece", "got_block", "got_choke",
      "got_reject", "piece_completed", "priority_changed", "sent_cancel", "sent_request" }

\* a constructor that forgets to observe sent_request
tags_without_sent_request == Events \ { "sent_request" }

\* the tags Wishlist::Impl::Impl initialises tags_ with
tags_at_construction == Events

\* ObserverTag::~ObserverTag: the observer is removed from its observable
destroy_tags(ts) == {}

\* SimpleObservable::emit: the handler runs if it is still subscribed
emit(event, cs, handled) == IF event \in tags THEN handled ELSE cs

\* ------------------------------------------------------------------------
\* tr_torrent: what a received block does to the torrent and, through the
\* piece_completed_ and got_bad_piece_ observables, to the scheduler.
\* A torrent-and-scheduler state is [have, cs].

\* tr_torrent::on_piece_completed: piece_completed_.emit -> remove_piece
on_piece_completed(st, piece) ==
    [st EXCEPT !.cs = emit("piece_completed", st.cs, remove_piece(st.cs, piece))]

\* tr_torrent::on_piece_failed: got_bad_piece_.emit, then set_has_piece(piece, false)
on_piece_failed(st, piece) ==
    [have |-> st.have \ SpanBlocks(block_span(piece)),
     cs |-> emit("got_bad_piece", st.cs, got_bad_piece(st.cs, piece, st.have))]

\* the loop of on_block_received over first_piece .. last_piece;
\* check_piece(piece) is pass[piece]
RECURSIVE check_pieces(_, _, _, _)
check_pieces(st, piece, last_piece, pass) ==
    IF piece > last_piece THEN st
    ELSE IF ~client_has_piece(st.have, piece) THEN check_pieces(st, piece + 1, last_piece, pass)
    ELSE IF pass[piece] THEN check_pieces(on_piece_completed(st, piece), piece + 1, last_piece, pass)
    ELSE check_pieces(on_piece_failed(st, piece), piece + 1, last_piece, pass)

\* tr_torrent::on_block_received
on_block_received(st, block, pass) ==
    IF client_has_block(st.have, block) THEN st
    ELSE check_pieces([st EXCEPT !.have = @ \cup {block}],
                      SetMin(block_pieces(block)), SetMax(block_pieces(block)), pass)

\* ------------------------------------------------------------------------
\* The state after construction: nothing downloaded, every file wanted at
\* normal priority, no request sent; Wishlist::Impl::Impl builds the list.

Init ==
    /\ torrent \in Torrents
    /\ owned = {}
    /\ files_wanted = [f \in Files |-> TRUE]
    /\ file_priorities = [f \in Files |-> 0]
    /\ \E sorted \in wanted_files(files_wanted) :
          file_index_by_piece = recalculate_file_order(files_wanted, sorted)
    /\ requests = [p \in Peers |-> {}]
    /\ tags = tags_at_construction
    /\ candidates = candidate_list_upkeep(owned, files_wanted, file_priorities, file_index_by_piece)

\* ------------------------------------------------------------------------
\* Events

\* tr_torrent::set_files_wanted: files_wanted_changed_ -> candidate_list_upkeep
FilesWantedChanged(file, wanted) ==
    /\ files_wanted' = [files_wanted EXCEPT ![file] = wanted]
    /\ \E sorted \in wanted_files(files_wanted') :
          file_index_by_piece' = recalculate_file_order(files_wanted', sorted)
    /\ candidates' = emit("files_wanted_changed", candidates,
                           candidate_list_upkeep(owned, files_wanted', file_priorities, file_index_by_piece'))
    /\ UNCHANGED << torrent, owned, file_priorities, requests, tags >>

\* tr_torrent::set_file_priorities: priority_changed_ -> recalculate_priority
PriorityChanged(file, priority) ==
    /\ priority # file_priorities[file]
    /\ file_priorities' = [file_priorities EXCEPT ![file] = priority]
    /\ candidates' = emit("priority_changed", candidates, recalculate_priority(candidates, file_priorities'))
    /\ UNCHANGED << torrent, owned, files_wanted, file_index_by_piece, requests, tags >>

\* the number of requests in flight, over all peers
in_flight(reqs) == Cardinality({ pb \in Peers \X Blocks : pb[2] \in reqs[pb[1]] })

\* a peer is sent a request for a span: sent_request -> requested_block_span
SentRequest(peer, span) ==
    /\ in_flight([requests EXCEPT ![peer] = @ \cup SpanBlocks(span)]) <= MaxRequests
    /\ requests' = [requests EXCEPT ![peer] = @ \cup SpanBlocks(span)]
    /\ candidates' = emit("sent_request", candidates, requested_block_span(candidates, span))
    /\ UNCHANGED << torrent, owned, files_wanted, file_priorities, file_index_by_piece, tags >>

\* the pieces a new block completes, which on_block_received has checked
checked_pieces(have, block) ==
    IF client_has_block(have, block) THEN {}
    ELSE { p \in block_pieces(block) : client_has_piece(have \cup {block}, p) }

\* a requested block arrives: tr_torrent::on_block_received, then got_block
GotBlock(peer, block, pass) ==
    LET st == on_block_received([have |-> owned, cs |-> candidates], block, pass)
    IN  /\ block \in requests[peer]
        /\ requests' = [requests EXCEPT ![peer] = @ \ {block}]
        /\ owned' = st.have
        /\ candidates' = emit("got_block", st.cs, client_got_block(st.cs, block))
        /\ UNCHANGED << torrent, files_wanted, file_priorities, file_index_by_piece, tags >>

\* the peer rejects a request: got_reject -> reset_block
GotReject(peer, block) ==
    /\ block \in requests[peer]
    /\ requests' = [requests EXCEPT ![peer] = @ \ {block}]
    /\ candidates' = emit("got_reject", candidates, reset_block(candidates, block))
    /\ UNCHANGED << torrent, owned, files_wanted, file_priorities, file_index_by_piece, tags >>

\* the client cancels a request: sent_cancel -> reset_block
SentCancel(peer, block) ==
    /\ block \in requests[peer]
    /\ requests' = [requests EXCEPT ![peer] = @ \ {block}]
    /\ candidates' = emit("sent_cancel", candidates, reset_block(candidates, block))
    /\ UNCHANGED << torrent, owned, files_wanted, file_priorities, file_index_by_piece, tags >>

\* the peer chokes the client: got_choke -> reset_blocks_bitfield(active requests)
GotChoke(peer) ==
    /\ requests[peer] # {}
    /\ requests' = [requests EXCEPT ![peer] = {}]
    /\ candidates' = emit("got_choke", candidates, reset_blocks_bitfield(candidates, requests[peer]))
    /\ UNCHANGED << torrent, owned, files_wanted, file_priorities, file_index_by_piece, tags >>

\* the peer goes away: peer_disconnect -> reset_blocks_bitfield(active requests)
PeerDisconnect(peer) ==
    /\ requests' = [requests EXCEPT ![peer] = {}]
    /\ candidates' = emit("peer_disconnect", candidates, reset_blocks_bitfield(candidates, requests[peer]))
    /\ UNCHANGED << torrent, owned, files_wanted, file_priorities, file_index_by_piece, tags >>

\* a peer's request loop asks for blocks: Wishlist::next
WishlistNext(seq, n_wanted_blocks, peer_has_piece) ==
    /\ tags # {}
    /\ candidates' = candidates_after_next(candidates, seq, n_wanted_blocks, peer_has_piece)
    /\ UNCHANGED << torrent, owned, files_wanted, file_priorities, file_index_by_piece, requests, tags >>

\* a seed's request loop asks for blocks: Wishlist::next(n_wanted_blocks)
WishlistNextSeed(seq, n_wanted_blocks) ==
    /\ tags # {}
    /\ UNCHANGED vars

\* Wishlist::~Wishlist: impl_ is destroyed, and candidates_ and tags_ with it
Destroy ==
    /\ tags # {}
    /\ tags' = destroy_tags(tags)
    /\ candidates' = << >>
    /\ UNCHANGED << torrent, owned, files_wanted, file_priorities, file_index_by_piece, requests >>

BlockSpans == { [begin |-> b, end |-> e] : b \in Blocks, e \in 1..block_count }

Next ==
    \/ \E file \in Files, wanted \in BOOLEAN : FilesWantedChanged(file, wanted)
    \/ \E file \in Files, priority \in Priorities : PriorityChanged(file, priority)
    \/ \E peer \in Peers, span \in { s \in BlockSpans : s.begin < s.end } : SentRequest(peer, span)
    \/ \E peer \in Peers, block \in Blocks :
          \E pass \in [checked_pieces(owned, block) -> BOOLEAN] : GotBlock(peer, block, pass)
    \/ \E peer \in Peers, block \in Blocks : GotReject(peer, block)
    \/ \E peer \in Peers, block \in Blocks : SentCancel(peer, block)
    \/ \E peer \in Peers : GotChoke(peer)
    \/ \E peer \in Peers : PeerDisconnect(peer)
    \/ \E seq \in BOOLEAN, n \in 0..MaxWanted, f \in SUBSET Pieces : WishlistNext(seq, n, f)
    \/ \E seq \in BOOLEAN, n \in 0..MaxWanted : WishlistNextSeed(seq, n)
    \/ Destroy

Spec == Init /\ [][Next]_vars

\* ------------------------------------------------------------------------
\* The file-order model: the same construction on torrents whose files have
\* paths of several shapes and outnumber the pieces, followed by changes of
\* the wanted files and of the priorities only.

FileOrderInit ==
    /\ torrent \in PathTorrents
    /\ owned = {}
    /\ files_wanted = [f \in Files |-> TRUE]
    /\ file_priorities = [f \in Files |-> 0]
    /\ \E sorted \in wanted_files(files_wanted) :
          file_index_by_piece = recalculate_file_order(files_wanted, sorted)
    /\ requests = [p \in Peers |-> {}]
    /\ tags = tags_at_construction
    /\ candidates = candidate_list_upkeep(owned, files_wanted, file_priorities, file_index_by_piece)

FileOrderNext ==
    \/ \E file \in Files, wanted \in BOOLEAN : FilesWantedChanged(file, wanted)
    \/ \E file \in Files, priority \in Priorities : PriorityChanged(file, priority)

FileOrderSpec == FileOrderInit /\ [][FileOrderNext]_vars

\* ------------------------------------------------------------------------
\* The download model: one seed, any wanted files and priorities, and no
\* event but the seed's requests and the arrival of requested blocks.

\* the seed: it has every piece
Seed == "p1"

DownloadInit ==
    /\ torrent \in Torrents
    /\ owned = {}
    /\ files_wanted \in [Files -> BOOLEAN]
    /\ file_priorities \in [Files -> Priorities]
    /\ \E sorted \in wanted_files(files_wanted) :
          file_index_by_piece = recalculate_file_order(files_wanted, sorted)
    /\ requests = [p \in Peers |-> {}]
    /\ tags = tags_at_construction
    /\ candidates = candidate_list_upkeep(owned, files_wanted, file_priorities, file_index_by_piece)

\* sent_request for each span in turn
RECURSIVE sent_requests(_, _)
sent_requests(cs, spans) ==
    IF spans = << >> THEN cs
    ELSE sent_requests(emit("sent_request", cs, requested_block_span(cs, Head(spans))), Tail(spans))

\* the seed's request loop: next(), then a request for every returned span
SeedRequests(seq, n_wanted_blocks) ==
    LET spans == next(candidates, seq, n_wanted_blocks, Pieces)
    IN  /\ spans # << >>
        /\ requests' = [requests EXCEPT ![Seed] = @ \cup UNION { SpanBlocks(spans[k]) : k \in DOMAIN spans }]
        /\ candidates' = sent_requests(candidates, spans)
        /\ UNCHANGED << torrent, owned, files_wanted, file_priorities, file_index_by_piece, tags >>

\* a requested block arrives from the seed, and every piece it completes
\* passes its check
SeedDelivers(block) == GotBlock(Seed, block, [piece \in checked_pieces(owned, block) |-> TRUE])

DownloadNext ==
    \/ \E seq \in BOOLEAN, n \in 1..MaxWanted : SeedRequests(seq, n)
    \/ \E block \in Blocks : SeedDelivers(block)

\* The seed's loop runs again and again, and a requested block arrives.
DownloadSpec ==
    /\ DownloadInit
    /\ [][DownloadNext]_vars
    /\ WF_vars(\E seq \in BOOLEAN, n \in 1..MaxWanted : SeedRequests(seq, n))
    /\ WF_vars(\E block \in Blocks : SeedDelivers(block))

\* ------------------------------------------------------------------------
\* What the properties speak about

\* the inputs of next(): the mode the mediator reports, n_wanted_blocks and
\* the pieces the peer has
Modes == BOOLEAN

WantedCounts == 0..MaxWanted

PeerFilters == SUBSET Pieces

SpansBlocks(spans) == UNION { SpanBlocks(spans[i]) : i \in 1..Len(spans) }

RECURSIVE SpansLength(_)
SpansLength(spans) ==
    IF spans = << >> THEN 0 ELSE (Head(spans).end - Head(spans).begin) + SpansLength(Tail(spans))

CandidateIndices == 1..Len(candidates)

\* the block is one the scheduler holds as unrequested
Unrequested(block) == \E i \in CandidateIndices : block \in candidates[i].unrequested

\* the block lies in a candidate's span
Covered(block) == \E i \in CandidateIndices : block_belongs(candidates[i], block)

\* the block is one the scheduler holds as requested
Requested(block) == Covered(block) /\ ~Unrequested(block)

\* some peer has an outstanding request for the block
Outstanding(block) == \E peer \in Peers : block \in requests[peer]

\* next(n, f) takes blocks from candidate i: the loop has more blocks after
\* candidate i than before it
Contributes(i, seq, n, f) ==
    Len(next_blocks(SubSeq(candidates, 1, i), seq, n, f))
        > Len(next_blocks(SubSeq(candidates, 1, i - 1), seq, n, f))

\* the blocks next(n, f) takes from candidate i
TakenFrom(i, seq, n, f) ==
    LET before == next_blocks(SubSeq(candidates, 1, i - 1), seq, n, f)
        after == next_blocks(SubSeq(candidates, 1, i), seq, n, f)
    IN  { after[k] : k \in (Len(before) + 1)..Len(after) }

\* candidate a's file is ordered before candidate b's
FileBefore(a, b) ==
    \/ a.priority > b.priority
    \/ a.priority = b.priority /\ a.file_index < b.file_index

\* the blocks of candidate i's piece that the client does not own, that no
\* peer has been asked for and that no other candidate's span holds
Requestable(i) ==
    { b \in SpanBlocks(block_span(candidates[i].piece)) :
        /\ b \notin owned
        /\ ~Outstanding(b)
        /\ \A k \in CandidateIndices \ {i} : ~block_belongs(candidates[k], b) }

\* ------------------------------------------------------------------------
\* C1: the spans next() returns are sorted ascending, do not overlap, do not
\* touch, and hold at most n blocks in total.
WellFormed(spans, n) ==
    /\ \A i \in 1..Len(spans) : spans[i].begin < spans[i].end
    /\ \A i \in 1..(Len(spans) - 1) : spans[i].end < spans[i + 1].begin
    /\ SpansLength(spans) <= n

C1_OutputWellFormed ==
    \A seq \in Modes, n \in WantedCounts, f \in PeerFilters :
        WellFormed(next(candidates, seq, n, f), n)

\* C2: next() returns no block the client owns.
C2_NoOwnedBlock ==
    \A seq \in Modes, n \in WantedCounts, f \in PeerFilters :
        SpansBlocks(next(candidates, seq, n, f)) \cap owned = {}

\* C3: an unowned block of a candidate is held as requested exactly when some
\* peer has an outstanding request for it.
C3_RequestedIffOutstanding ==
    \A block \in Blocks :
        (Covered(block) /\ block \notin owned) => (Requested(block) <=> Outstanding(block))

\* C4: when the normal pass finds nothing although an accepted candidate
\* still misses blocks, next(n >= 1) returns at least one block, and next(1)
\* exactly one, from the first accepted candidate that misses a block.
Missing(i) == SpanBlocks(candidates[i].block_span) \ owned

NothingUnrequested(f) ==
    \A i \in CandidateIndices : candidates[i].piece \in f => candidates[i].unrequested = {}

FirstMissing(f) ==
    SetMin({ i \in CandidateIndices : candidates[i].piece \in f /\ Missing(i) # {} })

C5_NoEndgameWhenShort ==
    \A seq \in Modes, n \in 1..MaxWanted, f \in PeerFilters :
        ~NothingUnrequested(f)
        => \A b \in SpansBlocks(next(candidates, seq, n, f)) : ~Requested(b)

\* the normal pass finds fewer than n blocks while an accepted candidate
\* misses a requested block
C5_Witness ==
    \E n \in 1..MaxWanted, f \in PeerFilters :
        /\ ~NothingUnrequested(f)
        /\ SpansLength(next(candidates, FALSE, n, f)) \in 1..(n - 1)
        /\ \E i \in CandidateIndices :
              candidates[i].piece \in f /\ \E b \in Missing(i) : Requested(b) /\ Outstanding(b)

\* C6: right after sent-request(span), next() in priority mode returns no
\* block of the span while another accepted, unowned, unrequested block is
\* left, and next(1) returns the lowest such block of the first candidate
\* that has one.
Eligible(i, f, span) ==
    IF candidates[i].piece \in f
    THEN (candidates[i].unrequested \ owned) \ SpanBlocks(span)
    ELSE {}

AfterSentRequest(span) ==
    \A n \in 1..MaxWanted, f \in PeerFilters :
        (\E i \in CandidateIndices : Eligible(i, f, span) # {})
        => LET spans == next(candidates, FALSE, n, f)
               first == SetMin({ i \in CandidateIndices : Eligible(i, f, span) # {} })
           IN  /\ SpansBlocks(spans) \cap SpanBlocks(span) = {}
               /\ n = 1 => SpansBlocks(spans) = { SetMin(Eligible(first, f, span)) }

C6_RequestedSpanNotReturned ==
    [][\A peer \in Peers, span \in BlockSpans :
          (span.begin < span.end /\ SentRequest(peer, span)) => AfterSentRequest(span)']_vars

\* C7: the candidate list is in the order of (priority descending,
\* file_index ascending, piece ascending).
KeyBefore(a, b) ==
    \/ a.priority > b.priority
    \/ a.priority = b.priority /\ a.file_index < b.file_index
    \/ a.priority = b.priority /\ a.file_index = b.file_index /\ a.piece < b.piece

C7_DirectorySorted ==
    \A i, j \in CandidateIndices : i < j => KeyBefore(candidates[i], candidates[j])

\* a priority change has put a higher-numbered piece first
C7_Witness ==
    \E i, j \in CandidateIndices :
        /\ i < j
        /\ candidates[i].piece > candidates[j].piece
        /\ candidates[i].priority > candidates[j].priority
        /\ candidates[i].file_index > candidates[j].file_index

\* C8: the spans of two candidates share no block, and every span lies in
\* [0, block_count).
C8_SpansDisjoint ==
    /\ \A i, j \in CandidateIndices :
          i # j => SpanBlocks(candidates[i].block_span) \cap SpanBlocks(candidates[j].block_span) = {}
    /\ \A i \in CandidateIndices :
          candidates[i].block_span.begin <= block_count /\ candidates[i].block_span.end <= block_count

\* C9: when a candidate piece fails its check on the arrival of its last
\* block, afterwards every block of the piece is unowned, and next() with a
\* predicate accepting the piece and n = block_count returns them all.
PieceFails(block, pass, piece) ==
    /\ piece = SetMin(checked_pieces(owned, block))
    /\ find_by_piece(candidates, piece) # 0
    /\ ~pass[piece]

AfterBadPiece(piece) ==
    /\ SpanBlocks(block_span(piece)) \cap owned = {}
    /\ \A seq \in Modes :
          SpanBlocks(block_span(piece)) \subseteq SpansBlocks(next(candidates, seq, block_count, {piece}))

C9_BadPieceRequestedAgain ==
    [][\A peer \in Peers, block \in Blocks :
          \A pass \in [checked_pieces(owned, block) -> BOOLEAN], piece \in checked_pieces(owned, block) :
              (GotBlock(peer, block, pass) /\ PieceFails(block, pass, piece)) => AfterBadPiece(piece)']_vars

\* C10: the candidate list holds one candidate for each piece that is wanted
\* and not complete, and none for any other piece.
C10_DirectoryIsWantedIncomplete ==
    /\ { candidates[i].piece : i \in CandidateIndices }
          = { p \in Pieces : piece_is_wanted(files_wanted, p) /\ ~client_has_piece(owned, p) }
    /\ \A i, j \in CandidateIndices : i # j => candidates[i].piece # candidates[j].piece

\* C11: a piece the client has is not a candidate, whatever events came after
\* its completion, and next() asked for that piece alone returns nothing.
C11_CompletedPieceAbsent ==
    \A piece \in Pieces :
        client_has_piece(owned, piece)
        => /\ find_by_piece(candidates, piece) = 0
           /\ \A seq \in Modes, n \in WantedCounts : next(candidates, seq, n, {piece}) = << >>

\* a piece is complete while another is still a candidate, after a priority
\* change and with its file unwanted and wanted again
C11_Witness ==
    \E piece \in Pieces :
        /\ client_has_piece(owned, piece)
        /\ piece_is_wanted(files_wanted, piece)
        /\ candidates # << >>
        /\ \E f \in Files : file_priorities[f] # 0

\* C12: in sequential mode the blocks of one next() call all come from
\* accepted candidates of one (priority, file_index) pair.
FileKeys == { << candidates[i].priority, candidates[i].file_index >> : i \in CandidateIndices }

OfFile(key, f) ==
    UNION { candidates[i].unrequested :
              i \in { j \in CandidateIndices :
                        /\ candidates[j].piece \in f
                        /\ << candidates[j].priority, candidates[j].file_index >> = key } }

C12_SequentialSingleFile ==
    \A n \in WantedCounts, f \in PeerFilters :
        LET taken == SpansBlocks(next(candidates, TRUE, n, f))
        IN  taken # {} => \E key \in FileKeys : taken \subseteq OfFile(key, f)

\* two files of different priority have unrequested blocks, n is enough for
\* both, and the sequential call returns the first file's blocks only
C12_Witness ==
    \E n \in WantedCounts :
        /\ \E k1, k2 \in FileKeys : k1[1] > k2[1] /\ OfFile(k1, Pieces) # {} /\ OfFile(k2, Pieces) # {}
        /\ SpansLength(next(candidates, TRUE, n, Pieces)) \in 1..(n - 1)
        /\ SpansLength(next(candidates, FALSE, n, Pieces)) = n

\* C13: in priority mode, when next(n, f) takes a block from a candidate, it
\* also returns every block that the client does not own and that no peer
\* has been asked for of every accepted candidate earlier in the list; so
\* after a priority change the raised file's blocks come first.
C13_EarlierCandidatesFirst ==
    \A n \in WantedCounts, f \in PeerFilters :
        LET taken == SpansBlocks(next(candidates, FALSE, n, f))
        IN  \A i \in CandidateIndices :
                Contributes(i, FALSE, n, f)
                => \A j \in 1..(i - 1) :
                       candidates[j].piece \in f => Requestable(j) \subseteq taken

StillToRequest ==
    { b \in Blocks :
        /\ b \notin owned
        /\ ~Outstanding(b)
        /\ \E piece \in block_pieces(b) :
              piece_is_wanted(files_wanted, piece) /\ ~client_has_piece(owned, piece) }

C15_LargeRequestComplete ==
    \A n \in WantedCounts :
        n >= Cardinality(StillToRequest)
        => SpansBlocks(next(candidates, FALSE, n, Pieces)) = StillToRequest

\* C16: got-choke and peer-disconnect with the peer's requests R make the
\* blocks of R that lie in a candidate's span unrequested, leave every other
\* block as it was, and leave the candidates and their order as they were.
SameCandidates ==
    /\ Len(candidates') = Len(candidates)
    /\ \A i \in CandidateIndices :
          [candidates'[i] EXCEPT !.unrequested = {}] = [candidates[i] EXCEPT !.unrequested = {}]

AfterReset(R) ==
    /\ SameCandidates
    /\ \A b \in Blocks :
          IF b \in R
          THEN Unrequested(b)' <=> (Covered(b) \/ Unrequested(b))
          ELSE \A i \in CandidateIndices :
                  b \in candidates'[i].unrequested <=> b \in candidates[i].unrequested

C16_ResetExactlyRequests ==
    [][\A peer \in Peers :
          (GotChoke(peer) \/ PeerDisconnect(peer)) => AfterReset(requests[peer])]_vars

\* a peer holds a request for a block the scheduler has as requested, while
\* a block it did not ask for is requested too
C16_Witness ==
    \E peer \in Peers :
        /\ \E b \in requests[peer] : Requested(b)
        /\ \E b \in Blocks \ requests[peer] : Requested(b) /\ Outstanding(b)

\* C17: every block next(n, f) returns lies in the span of a candidate whose
\* piece f accepts.
C17_OnlyAcceptedCandidates ==
    \A seq \in Modes, n \in WantedCounts, f \in PeerFilters :
        \A b \in SpansBlocks(next(candidates, seq, n, f)) :
            \E i \in CandidateIndices :
                /\ candidates[i].piece \in f
                /\ block_belongs(candidates[i], b)
                /\ b \in SpanBlocks(block_span(candidates[i].piece))

\* the first candidate has unrequested blocks and is rejected, and next()
\* returns blocks of a later one
C17_Witness ==
    \E f \in PeerFilters, n \in WantedCounts :
        /\ candidates # << >>
        /\ candidates[1].piece \notin f
        /\ candidates[1].unrequested # {}
        /\ next(candidates, FALSE, n, f) # << >>
        /\ \E b \in Blocks : Requested(b) /\ Outstanding(b)

\* C18: next(0, f) returns the empty list, next() on an empty candidate
\* list returns the empty list, and every result holds between 0 and n blocks.
C18_EmptyResults ==
    \A seq \in Modes, f \in PeerFilters :
        /\ next(candidates, seq, 0, f) = << >>
        /\ \A n \in WantedCounts :
              /\ candidates = << >> => next(candidates, seq, n, f) = << >>
              /\ SpansLength(next(candidates, seq, n, f)) \in 0..n

\* the download is finished and the candidate list is empty
C18_Witness ==
    /\ candidates = << >>
    /\ owned = Blocks
    /\ \A f \in Files : files_wanted[f]

\* C19: an event for a block in no candidate's span (got-block, got-reject,
\* sent-cancel) or for a piece that is not a candidate (piece-completed,
\* got-bad-piece) leaves the candidate list, its order and every unrequested
\* set as they were.
AbsentPieceNoOp ==
    \A piece \in Pieces :
        find_by_piece(candidates, piece) = 0
        => /\ remove_piece(candidates, piece) = candidates
           /\ got_bad_piece(candidates, piece, owned) = candidates

UncoveredBlockNoOp(peer, block) ==
    /\ (GotReject(peer, block) \/ SentCancel(peer, block)) => candidates' = candidates
    /\ \A pass \in [checked_pieces(owned, block) -> BOOLEAN] :
          ( /\ GotBlock(peer, block, pass)
            /\ \A piece \in checked_pieces(owned, block) : find_by_piece(candidates, piece) = 0 )
          => candidates' = candidates

C19_AbsentTargetNoOp ==
    [][/\ AbsentPieceNoOp
       /\ \A peer \in Peers, block \in Blocks :
             ~Covered(block) => UncoveredBlockNoOp(peer, block)]_vars

\* a peer has been asked for a block that lies in no candidate's span and
\* whose arrival completes a piece that is not a candidate, while another
\* piece is a candidate
C19_Witness ==
    \E peer \in Peers, block \in Blocks :
        /\ block \in requests[peer]
        /\ ~Covered(block)
        /\ checked_pieces(owned, block) # {}
        /\ \A piece \in checked_pieces(owned, block) : find_by_piece(candidates, piece) = 0
        /\ \E i \in CandidateIndices : candidates[i].unrequested # {}

RebuiltCovers(cs) ==
    \A piece \in { p \in Pieces : piece_is_wanted(files_wanted, p) /\ ~client_has_piece(owned, p) } :
        \A b \in SpanBlocks(block_span(piece)) :
            \E i \in 1..Len(cs) : block_belongs(cs[i], b)

C22_RebuildCoversEveryBlock ==
    RebuiltCovers(candidate_list_upkeep(owned, files_wanted, file_priorities, file_index_by_piece))

\* C23: every candidate's block span has begin <= end.
C23_SpanBeginBeforeEnd ==
    \A i \in CandidateIndices : candidates[i].block_span.begin <= candidates[i].block_span.end

\* C24: a block that is requested and in flight before files-wanted-changed,
\* in a piece that is a candidate before and after the event, is still
\* requested afterwards and next() does not return it.
KeptRequested(b) ==
    ( /\ Outstanding(b)
      /\ Requested(b)
      /\ \E piece \in block_pieces(b) :
            find_by_piece(candidates, piece) # 0 /\ find_by_piece(candidates', piece) # 0 )
    => /\ Requested(b)'
       /\ \A seq \in Modes, n \in WantedCounts, f \in PeerFilters :
             b \notin SpansBlocks(next(candidates', seq, n, f))

C24_RebuildKeepsRequested ==
    [][\A file \in Files, wanted \in BOOLEAN :
          FilesWantedChanged(file, wanted) => \A b \in Blocks : KeptRequested(b)]_vars

\* C25: sent-request(span) makes every block of the span that lies in a
\* candidate's span requested, and leaves every block outside the span in
\* the unrequested sets it was in.
AfterRequestedSpan(span) ==
    /\ \A b \in SpanBlocks(span) : Covered(b) => ~Unrequested(b)'
    /\ \A b \in Blocks \ SpanBlocks(span) :
          \A i \in CandidateIndices :
              b \in candidates'[i].unrequested <=> b \in candidates[i].unrequested

C25_SentRequestMarksSpan ==
    [][\A peer \in Peers, span \in BlockSpans :
          (span.begin < span.end /\ SentRequest(peer, span))
          => (Len(candidates') = Len(candidates) /\ AfterRequestedSpan(span))]_vars

\* C26: in sequential mode next() takes blocks from a candidate of a file
\* only if no accepted candidate of a file ordered before it (higher
\* priority, or the same priority and a lower file index) has a block that
\* the client does not own and no peer has been asked for.
C26_SequentialFileOrder ==
    \A n \in WantedCounts, f \in PeerFilters :
        \A i \in CandidateIndices :
            Contributes(i, TRUE, n, f)
            => \A j \in CandidateIndices :
                   (candidates[j].piece \in f /\ FileBefore(candidates[j], candidates[i]))
                   => Requestable(j) = {}

\* C27: for the same state, n and predicate, the blocks next() returns in
\* sequential mode are among those it returns in priority mode, and it
\* returns none in sequential mode only if it returns none in priority mode.
C27_SequentialNeverStarves ==
    \A n \in 1..MaxWanted, f \in PeerFilters :
        /\ SpansBlocks(next(candidates, TRUE, n, f)) \subseteq SpansBlocks(next(candidates, FALSE, n, f))
        /\ next(candidates, TRUE, n, f) = << >> => next(candidates, FALSE, n, f) = << >>

\* the first file has nothing left to request from while a request for it is
\* in flight, and the sequential call returns blocks of the next file
C27_Witness ==
    \E n \in 1..MaxWanted :
        /\ Len(candidates) > 1
        /\ candidates[1].unrequested = {}
        /\ \E b \in SpanBlocks(candidates[1].block_span) : Outstanding(b)
        /\ FileBefore(candidates[1], candidates[2])
        /\ next(candidates, TRUE, n, Pieces) # << >>

\* C28: the blocks next() takes from a candidate are the lowest of its
\* unrequested blocks, and next() never collects more than n blocks.
C28_AscendingWithinCandidate ==
    \A seq \in Modes, n \in WantedCounts, f \in PeerFilters :
        /\ Len(next_blocks(candidates, seq, n, f)) <= n
        /\ \A i \in CandidateIndices :
              \A b \in TakenFrom(i, seq, n, f) :
                  /\ b \in candidates[i].unrequested
                  /\ \A lower \in candidates[i].unrequested : lower < b => lower \in TakenFrom(i, seq, n, f)

\* next() takes some but not all of a candidate's unrequested blocks, while
\* a request is in flight
C28_Witness ==
    \E seq \in Modes, n \in WantedCounts, i \in CandidateIndices :
        /\ TakenFrom(i, seq, n, Pieces) # {}
        /\ TakenFrom(i, seq, n, Pieces) # candidates[i].unrequested
        /\ \E b \in Blocks : Requested(b) /\ Outstanding(b)

\* C29: for a block b the client does not own and a candidate holds as
\* unrequested, sent-request([b, b+1)) followed by got-reject(b) or
\* sent-cancel(b) gives back the candidate list as it was, and the request
\* changes nothing but where b is held as unrequested.
OnlyBlockTouched(cs, b) ==
    /\ Len(cs) = Len(candidates)
    /\ \A i \in CandidateIndices :
          /\ [cs[i] EXCEPT !.unrequested = {}] = [candidates[i] EXCEPT !.unrequested = {}]
          /\ cs[i].unrequested \ {b} = candidates[i].unrequested \ {b}

C29_RequestRejectRoundTrip ==
    \A b \in Blocks :
        (b \notin owned /\ Unrequested(b))
        => LET sent == requested_block_span(candidates, [begin |-> b, end |-> b + 1])
           IN  /\ OnlyBlockTouched(sent, b)
               /\ reset_block(sent, b) = candidates

\* C30: priority-changed leaves the set of candidate pieces as it was, and
\* for each of them its span, its file index and its unrequested set.
SameButPriority(a, b) == [a EXCEPT !.priority = 0] = [b EXCEPT !.priority = 0]

C30_PriorityChangeOnlyResorts ==
    [][\A file \in Files, priority \in Priorities :
          PriorityChanged(file, priority)
          => /\ Len(candidates') = Len(candidates)
             /\ \A i \in CandidateIndices :
                   \E j \in CandidateIndices : SameButPriority(candidates'[j], candidates[i])
             /\ \A b \in Blocks : Unrequested(b)' <=> Unrequested(b)]_vars

\* a priority change has reordered the list while a block is requested and
\* in flight
C30_Witness ==
    /\ Len(candidates) > 1
    /\ candidates[1].priority > candidates[2].priority
    /\ candidates[1].file_index > candidates[2].file_index
    /\ \E b \in Blocks : Requested(b) /\ Outstanding(b)

\* C31: a block that lies in the full spans of two candidates' pieces
\* belongs to the span of the one that comes first in the list.
C31_SharedBlockToEarlier ==
    \A i, j \in CandidateIndices :
        i < j
        => \A b \in SpanBlocks(candidates[i].raw_block_span) \cap SpanBlocks(candidates[j].raw_block_span) :
               block_belongs(candidates[i], b)

\* the alphabetical position of a file in the sorted wanted files, from 0
Position(sorted, file) == (CHOOSE i \in DOMAIN sorted : sorted[i] = file) - 1

\* C32: every candidate carries its piece's current file ordinal, and for
\* some order std::sort can leave the wanted files in, each wanted piece's
\* ordinal is the smallest position of its wanted files and each unwanted
\* piece's ordinal is piece_count.
C32_FileOrdinals ==
    /\ \A i \in CandidateIndices : candidates[i].file_index = file_index_by_piece[candidates[i].piece]
    /\ \E sorted \in wanted_files(files_wanted) :
          \A piece \in Pieces :
              file_index_by_piece[piece] =
                  IF piece_is_wanted(files_wanted, piece)
                  THEN SetMin({ Position(sorted, f) :
                                  f \in { g \in file_span_for_piece(piece) : files_wanted[g] } })
                  ELSE piece_count

\* C36: the comparison that orders the wanted files is irreflexive and
\* transitive on the torrent's files.
C36_ComparisonIsStrictOrder ==
    /\ \A a \in Files : ~file_order_less(a, a)
    /\ \A a, b, c \in Files :
          file_order_less(a, b) /\ file_order_less(b, c) => file_order_less(a, c)

\* the number of candidates the loop of requested_block_span visits from
\* `block' on, counted for at most `fuel' iterations
RECURSIVE Iterations(_, _, _)
Iterations(span, block, fuel) ==
    IF fuel = 0 \/ block >= span.end \/ find_by_block(candidates, block) = 0 THEN 0
    ELSE 1 + Iterations(span, loop_advance(candidates[find_by_block(candidates, block)]), fuel - 1)

\* C33: for every span, the loop of the sent-request handler goes on with a
\* block beyond the one it looked up, whatever candidate it found, and it
\* visits each candidate at most once.
C33_SentRequestLoopAdvances ==
    \A span \in BlockSpans :
        /\ \A block \in SpanBlocks(span) :
               find_by_block(candidates, block) # 0
               => loop_advance(candidates[find_by_block(candidates, block)]) > block
        /\ Iterations(span, span.begin, Len(candidates) + 1) <= Len(candidates)

\* the loop runs over two candidates, one with a trimmed span and one with
\* nothing left to request, after a request was sent
C33_Witness ==
    /\ \E b \in Blocks : Outstanding(b)
    /\ \E span \in BlockSpans : Iterations(span, span.begin, Len(candidates) + 1) = 2
    /\ \E i \in CandidateIndices : candidates[i].block_span # candidates[i].raw_block_span
    /\ \E i \in CandidateIndices :
          candidates[i].unrequested = {} /\ candidates[i].block_span.begin < candidates[i].block_span.end

\* every block of the span is in no candidate's unrequested set, and the
\* candidate of the span's first block has no unrequested block at all
Exhausted(span) ==
    /\ find_by_block(candidates, span.begin) # 0
    /\ candidates[find_by_block(candidates, span.begin)].unrequested = {}
    /\ \A b \in SpanBlocks(span) : ~Unrequested(b)

\* C34: sent-request(span), delivered when the candidate of the span's first
\* block has nothing left to request and the span's blocks are all requested,
\* changes no candidate and reads no element of an empty unrequested set.
C34_SentRequestOnExhausted ==
    [][\A peer \in Peers, span \in BlockSpans :
          (span.begin < span.end /\ Exhausted(span) /\ SentRequest(peer, span))
          => /\ candidates' = candidates
             /\ ~reads_empty_unrequested(candidates, span, span.begin)]_vars

\* C34, the part about the state alone
C34_StateUnchanged ==
    [][\A peer \in Peers, span \in BlockSpans :
          (span.begin < span.end /\ Exhausted(span) /\ SentRequest(peer, span))
          => candidates' = candidates]_vars

\* C35: with one seed that keeps requesting what next() returns and delivers
\* every requested block, eventually every wanted piece is complete and the
\* candidate list is empty.
C35_DownloadCompletes ==
    <>(/\ candidates = << >>
       /\ \A piece \in Pieces : piece_is_wanted(files_wanted, piece) => client_has_piece(owned, piece))

\* C37: every candidate's unrequested blocks lie in its current span, and
\* where two candidates' spans share no block, neither do their unrequested
\* sets.
C37_UnrequestedWithinSpan ==
    /\ \A i \in CandidateIndices :
          candidates[i].unrequested \subseteq SpanBlocks(candidates[i].block_span)
    /\ \A i, j \in CandidateIndices :
          (i # j /\ SpanBlocks(candidates[i].block_span) \cap SpanBlocks(candidates[j].block_span) = {})
          => candidates[i].unrequested \cap candidates[j].unrequested = {}

\* a candidate whose span was trimmed has a block in its unrequested set
\* that a peer is still asked for: the block was requested, and then a reset
\* or a rebuild of the list put it back
C37_Witness ==
    \E i \in CandidateIndices :
        /\ candidates[i].block_span # candidates[i].raw_block_span
        /\ \E b \in candidates[i].unrequested : Outstanding(b)

====
